---------------------------- MODULE Spec2Model ----------------------------
(***************************************************************************)
(* A model of src/main.py: the gravity simulation's body collection, the    *)
(* per-frame update pass (Body.update with Body.merge inline), the spawners *)
(* (add_planet, add_asteroid) and the keyboard commands of the main loop.   *)
(*                                                                         *)
(* Python floats are modelled in fixed point: positions, velocities, radii *)
(* and forces are integers counting 1/FP of a world unit, and every        *)
(* division and square root rounds toward zero.  Masses are exact          *)
(* integers, as they are in the program (1, 5, 10000 and their sums).      *)
(* The camera (zoom, offset_x, offset_y) stays at the values lines 21-23   *)
(* give it: the zoom and drag handlers are not part of this model.         *)
(***************************************************************************)
EXTENDS Integers, Sequences, FiniteSets, TLC

VARIABLES
    obj,      \* every Body constructed so far, by identity (1 is the sun)
    bodies,   \* the list `bodies`: identities of the live bodies, in order
    paused,   \* the global `paused`
    fault,    \* "none", or the exception that ended the program
    ticks,    \* frames of the main loop completed
    hist,     \* per body: every position it was ever integrated to
    log       \* what the last frame's update pass did (EmptyLog after an event)

vars == <<obj, bodies, paused, fault, ticks, hist, log>>

---------------------------------------------------------------------------
(* Bounds of the model *)

MaxBodies == 3          \* Body objects ever constructed, the sun included
MaxTicks == 2           \* frames of the main loop
TrailTicks == 152       \* frames of the long run that fills a trail

---------------------------------------------------------------------------
(* Program constants *)

FP == 10                \* fixed-point resolution: 1 world unit = FP
WIDTH == 1200
HEIGHT == 800
GNUM == 66743           \* G = 6.67430e-1 = GNUM / GDEN
GDEN == 100000
zoom == 1
offset_x == 0
offset_y == 0
TrailCap == 150
SunMass == 10000
SunRadius == 20
PlanetMass == 5
PlanetRadius == 6
AsteroidMass == 1
AsteroidRadius == 3

---------------------------------------------------------------------------
(* Arithmetic *)

\* a / b for b > 0, rounded toward zero
Quot(a, b) == IF a >= 0 THEN a \div b ELSE -((-a) \div b)

RECURSIVE SqrtBetween(_, _, _)
SqrtBetween(n, lo, hi) ==
    IF lo >= hi THEN lo
    ELSE LET mid == (lo + hi + 1) \div 2
         IN  IF mid * mid <= n THEN SqrtBetween(n, mid, hi)
             ELSE SqrtBetween(n, lo, mid - 1)

\* math.sqrt / math.hypot: the integer part of the square root of n >= 0
ISqrt(n) == SqrtBetween(n, 0, IF n < 46340 THEN n ELSE 46340)

Hypot(dx, dy) == ISqrt(dx * dx + dy * dy)

---------------------------------------------------------------------------
(* Body *)

NewBody(x, y, radius, mass, vx, vy, is_static) ==
    [x |-> x, y |-> y, radius |-> radius, mass |-> mass,
     vx |-> vx, vy |-> vy, is_static |-> is_static, trail |-> <<>>]

Sun == NewBody(0, 0, SunRadius * FP, SunMass, 0, 0, TRUE)

\* `x in bodies`
InList(id, list) == \E i \in 1..Len(list) : list[i] = id

\* list.remove(id): the list without the first occurrence of id
ListRemove(list, id) ==
    LET i == CHOOSE k \in 1..Len(list) :
                 list[k] = id /\ \A j \in 1..(k - 1) : list[j] # id
    IN  SubSeq(list, 1, i - 1) \o SubSeq(list, i + 1, Len(list))


---------------------------------------------------------------------------
(* Body.merge *)

\* Absorb with the radii added instead of the areas
AbsorbLinearRadius(w, l) ==
    LET mass == w.mass + l.mass
    IN  [w EXCEPT
            !.mass = mass,
            !.vx = Quot(w.vx * mass + l.vx * l.mass, l.mass + mass),
            !.vy = Quot(w.vy * mass + l.vy * l.mass, l.mass + mass),
            !.radius = w.radius + l.radius]

\* The winner w as merge leaves it after absorbing the loser l: the mass is
\* summed first, and the velocity is then averaged with the mass just written
\* (lines 99-102 and 106-109).
Absorb(w, l) ==
    LET mass == w.mass + l.mass
    IN  [w EXCEPT
            !.mass = mass,
            !.vx = Quot(w.vx * mass + l.vx * l.mass, l.mass + mass),
            !.vy = Quot(w.vy * mass + l.vy * l.mass, l.mass + mass),
            !.radius = ISqrt(w.radius * w.radius + l.radius * l.radius)]

\* the log's record of one call self.merge(other): the two bodies as they
\* were when it was called (w, l), the winner as the call left it (after), and
\* the live list as the call left it (live)
MergeEntry(self, other, kind, win, lose, st, after, live) ==
    [self |-> self, other |-> other, kind |-> kind,
     winner |-> win, loser |-> lose,
     w |-> [st.obj[win] EXCEPT !.trail = <<>>],
     l |-> [st.obj[lose] EXCEPT !.trail = <<>>],
     after |-> [after EXCEPT !.trail = <<>>],
     winLive |-> InList(win, st.bodies),
     loseLive |-> InList(lose, st.bodies),
     winLiveAfter |-> InList(win, live),
     loseLiveAfter |-> InList(lose, live)]

\* merge with the comparison turned round: the heavier body is absorbed
MergeHeavierLoses(self, other, st) ==
    IF st.obj[other].is_static
    THEN [st EXCEPT !.merges = Append(@, MergeEntry(self, other, "static", other, self,
                                                    st, st.obj[other], st.bodies))]
    ELSE LET lose == IF st.obj[self].mass > st.obj[other].mass THEN self ELSE other
             win == IF lose = self THEN other ELSE self
             after == Absorb(st.obj[win], st.obj[lose])
             live == IF InList(lose, st.bodies) THEN ListRemove(st.bodies, lose)
                     ELSE st.bodies
         IN  [st EXCEPT
                 !.obj[win] = after,
                 !.bodies = live,
                 !.merges = Append(@, MergeEntry(self, other, "merged", win, lose,
                                                 st, after, live))]

\* merge with `<=` for `<`: on equal masses self is absorbed
MergeTieToOther(self, other, st) ==
    IF st.obj[other].is_static
    THEN [st EXCEPT !.merges = Append(@, MergeEntry(self, other, "static", other, self,
                                                    st, st.obj[other], st.bodies))]
    ELSE LET lose == IF st.obj[self].mass <= st.obj[other].mass THEN self ELSE other
             win == IF lose = self THEN other ELSE self
             after == Absorb(st.obj[win], st.obj[lose])
             live == IF InList(lose, st.bodies) THEN ListRemove(st.bodies, lose)
                     ELSE st.bodies
         IN  [st EXCEPT
                 !.obj[win] = after,
                 !.bodies = live,
                 !.merges = Append(@, MergeEntry(self, other, "merged", win, lose,
                                                 st, after, live))]

\* self.merge(other) on the scan state st
Merge(self, other, st) ==
    IF st.obj[other].is_static
    THEN [st EXCEPT !.merges = Append(@, MergeEntry(self, other, "static", other, self,
                                                    st, st.obj[other], st.bodies))]
    ELSE LET lose == IF st.obj[self].mass < st.obj[other].mass THEN self ELSE other
             win == IF lose = self THEN other ELSE self
             after == Absorb(st.obj[win], st.obj[lose])
             live == IF InList(lose, st.bodies) THEN ListRemove(st.bodies, lose)
                     ELSE st.bodies
         IN  [st EXCEPT
                 !.obj[win] = after,
                 !.bodies = live,
                 !.merges = Append(@, MergeEntry(self, other, "merged", win, lose,
                                                 st, after, live))]

---------------------------------------------------------------------------
(* Body.update *)

\* G * self.mass * other.mass / distance**2, in 1/FP units; d2 is distance**2
\* in 1/FP^2 units.  G * other.mass is taken first to stay within 32 bits.
Force(m_self, m_other, d2) ==
    Quot(Quot(GNUM * m_other, GDEN \div (FP * FP * FP)) * m_self, d2)

\* the log's record of one iteration of the scan: the pair, what the
\* iteration did, the offset of other from self, the force it added (push),
\* and how many merge calls the frame had made before it
SeenEntry(self, other, kind, st, push) ==
    [self |-> self, other |-> other, kind |-> kind,
     selfLive |-> InList(self, st.bodies),
     mergesBefore |-> Len(st.merges),
     dx |-> st.obj[other].x - st.obj[self].x,
     dy |-> st.obj[other].y - st.obj[self].y,
     push |-> push]

\* the scan without the `distance == 0` test of lines 70-71
RECURSIVE ScanNoZeroCheck(_, _, _)
ScanNoZeroCheck(self, i, st) ==
    IF i > Len(st.bodies) THEN st
    ELSE
      LET other == st.bodies[i]
          S == st.obj[self]
          O == st.obj[other]
          dx == O.x - S.x
          dy == O.y - S.y
          distance == Hypot(dx, dy)
      IN  IF other = self THEN ScanNoZeroCheck(self, i + 1, st)
          ELSE IF distance < S.radius + O.radius
            THEN ScanNoZeroCheck(self, i + 1,
                      Merge(self, other,
                            [st EXCEPT !.seen = Append(@, SeenEntry(self, other, "collide",
                                                                   st, <<0, 0>>))]))
          ELSE
            LET force == Force(S.mass, O.mass, dx * dx + dy * dy)
                push == <<Quot(dx * force, distance), Quot(dy * force, distance)>>
            IN  ScanNoZeroCheck(self, i + 1,
                     [st EXCEPT
                         !.fx = @ + push[1],
                         !.fy = @ + push[2],
                         !.seen = Append(@, SeenEntry(self, other, "force", st, push))])

\* the scan over every body ever created (position i of obj), removed or not,
\* instead of over the live list
RECURSIVE ScanAll(_, _, _)
ScanAll(self, i, st) ==
    IF i > Len(st.obj) THEN st
    ELSE
      LET other == i
          S == st.obj[self]
          O == st.obj[other]
          dx == O.x - S.x
          dy == O.y - S.y
          distance == Hypot(dx, dy)
      IN  IF other = self THEN ScanAll(self, i + 1, st)
          ELSE IF distance = 0
            THEN ScanAll(self, i + 1,
                      [st EXCEPT !.seen = Append(@, SeenEntry(self, other, "zero", st, <<0, 0>>))])
          ELSE IF distance < S.radius + O.radius
            THEN ScanAll(self, i + 1,
                      Merge(self, other,
                            [st EXCEPT !.seen = Append(@, SeenEntry(self, other, "collide",
                                                                   st, <<0, 0>>))]))
          ELSE
            LET force == Force(S.mass, O.mass, dx * dx + dy * dy)
                push == <<Quot(dx * force, distance), Quot(dy * force, distance)>>
            IN  ScanAll(self, i + 1,
                     [st EXCEPT
                         !.fx = @ + push[1],
                         !.fy = @ + push[2],
                         !.seen = Append(@, SeenEntry(self, other, "force", st, push))])

\* `for other in bodies:` from list position i on; Python's list iterator
\* reads bodies[i] of the list as it is now, so a removal shifts what follows.
RECURSIVE Scan(_, _, _)
Scan(self, i, st) ==
    IF i > Len(st.bodies) THEN st
    ELSE
      LET other == st.bodies[i]
          S == st.obj[self]
          O == st.obj[other]
          dx == O.x - S.x
          dy == O.y - S.y
          distance == Hypot(dx, dy)
      IN  IF other = self THEN Scan(self, i + 1, st)
          ELSE IF distance = 0
            THEN Scan(self, i + 1,
                      [st EXCEPT !.seen = Append(@, SeenEntry(self, other, "zero", st, <<0, 0>>))])
          ELSE IF distance < S.radius + O.radius
            THEN Scan(self, i + 1,
                      Merge(self, other,
                            [st EXCEPT !.seen = Append(@, SeenEntry(self, other, "collide",
                                                                   st, <<0, 0>>))]))
          ELSE
            LET force == Force(S.mass, O.mass, dx * dx + dy * dy)
                push == <<Quot(dx * force, distance), Quot(dy * force, distance)>>
            IN  Scan(self, i + 1,
                     [st EXCEPT
                         !.fx = @ + push[1],
                         !.fy = @ + push[2],
                         !.seen = Append(@, SeenEntry(self, other, "force", st, push))])

\* Integrate with the newest entry dropped instead of the oldest (pop() for pop(0))
IntegrateDropNewest(b, fx, fy) ==
    LET vx == b.vx + Quot(fx, b.mass)
        vy == b.vy + Quot(fy, b.mass)
        x == b.x + vx
        y == b.y + vy
        trail == Append(b.trail, <<x, y>>)
    IN  [b EXCEPT !.vx = vx, !.vy = vy, !.x = x, !.y = y,
                  !.trail = IF Len(trail) > TrailCap
                            THEN SubSeq(trail, 1, Len(trail) - 1) ELSE trail]

\* lines 84-93: apply the force, move, extend the trail
Integrate(b, fx, fy) ==
    LET vx == b.vx + Quot(fx, b.mass)
        vy == b.vy + Quot(fy, b.mass)
        x == b.x + vx
        y == b.y + vy
        trail == Append(b.trail, <<x, y>>)
    IN  [b EXCEPT !.vx = vx, !.vy = vy, !.x = x, !.y = y,
                  !.trail = IF Len(trail) > TrailCap THEN Tail(trail) ELSE trail]

\* update without the test of `paused`
UpdateIgnoringPause(self, st) ==
    LET called == [st EXCEPT !.calls = Append(@, self)]
    IN  IF called.obj[self].is_static THEN called
        ELSE LET sc == Scan(self, 1, [called EXCEPT !.fx = 0, !.fy = 0])
                 b == Integrate(sc.obj[self], sc.fx, sc.fy)
             IN  [sc EXCEPT !.obj[self] = b,
                            !.hist[self] = Append(@, <<b.x, b.y>>),
                            !.integ = Append(@, self),
                            !.integLive = Append(@, InList(self, sc.bodies))]

\* self.update() on the frame state st (obj, bodies, hist and the log's lists)
Update(self, st) ==
    LET called == [st EXCEPT !.calls = Append(@, self)]
    IN  IF called.obj[self].is_static \/ paused THEN called
        ELSE LET sc == Scan(self, 1, [called EXCEPT !.fx = 0, !.fy = 0])
                 b == Integrate(sc.obj[self], sc.fx, sc.fy)
             IN  IF sc.obj[self].mass = 0
                 THEN [sc EXCEPT !.fault = "ZeroDivisionError"]   \* line 85
                 ELSE [sc EXCEPT !.obj[self] = b,
                                 !.hist[self] = Append(@, <<b.x, b.y>>),
                                 !.integ = Append(@, self),
                                 !.integLive = Append(@, InList(self, sc.bodies))]

---------------------------------------------------------------------------
(* Inputs: the values random and the event queue can deliver *)

\* random.uniform(0, 2*pi), as <<cos(angle), sin(angle)>>: 0 and pi/2
Angles == {<<1, 0>>, <<0, 1>>}

\* random.randint(100, 400)
Dists == {100}

\* event.pos of a left click: the window centre and a pixel to its right
Clicks == {<<600, 400>>, <<704, 400>>}

\* random.randint(-WIDTH, WIDTH), random.randint(-HEIGHT, HEIGHT)
AsteroidSpots == {<<104, 0>>, <<10, 0>>}

\* random.uniform(-2, 2) twice, in 1/FP units
AsteroidVels == {<<0, 0>>}

NoPos == <<>>

---------------------------------------------------------------------------
(* Spawners *)

\* sqrt(G * sun.mass / distance), distance in 1/FP units and not 0
OrbitSpeed(sunMass, distance) ==
    ISqrt(Quot(Quot(GNUM * sunMass, GDEN \div (FP * FP * FP)), distance))

\* the position add_planet settles on (lines 121-127)
PlanetPos(pos, angle, dist) ==
    IF Len(pos) > 0
    THEN <<Quot(pos[1] * FP - (WIDTH * FP) \div 2, zoom) - offset_x,
           Quot(pos[2] * FP - (HEIGHT * FP) \div 2, zoom) - offset_y>>
    ELSE <<angle[1] * dist * FP, angle[2] * dist * FP>>

\* the Body add_planet constructs (lines 129-134); the position is not the sun's
PlanetBody(sun, pos, angle, dist) ==
    LET at == PlanetPos(pos, angle, dist)
        distance == Hypot(at[1], at[2])
        speed == OrbitSpeed(sun.mass, distance)
    IN  NewBody(at[1], at[2], PlanetRadius * FP, PlanetMass,
                -angle[2] * speed, angle[1] * speed, FALSE)

AsteroidBody(at, vel) ==
    NewBody(at[1] * FP, at[2] * FP, AsteroidRadius * FP, AsteroidMass,
            vel[1], vel[2], FALSE)

EmptyLog ==
    [ticked |-> FALSE, snap |-> <<>>, pre_obj |-> <<>>, pre_bodies |-> <<>>,
     pre_paused |-> FALSE,
     calls |-> <<>>, drawn |-> <<>>, seen |-> <<>>, merges |-> <<>>, integ |-> <<>>,
     integLive |-> <<>>]

\* bodies.append(Body(...))
Spawn(b) ==
    /\ obj' = Append(obj, b)
    /\ bodies' = Append(bodies, Len(obj) + 1)
    /\ hist' = Append(hist, <<>>)
    /\ log' = EmptyLog
    /\ UNCHANGED <<paused, fault, ticks>>

add_planet(pos, angle, dist) ==
    LET at == PlanetPos(pos, angle, dist)
    IN  IF Hypot(at[1], at[2]) = 0
        THEN /\ fault' = "ZeroDivisionError"      \* line 130 divides by distance
             /\ log' = EmptyLog
             /\ UNCHANGED <<obj, bodies, paused, ticks, hist>>
        ELSE Spawn(PlanetBody(obj[1], pos, angle, dist))

add_asteroid(at, vel) == Spawn(AsteroidBody(at, vel))

---------------------------------------------------------------------------
(* The main loop *)

Running == fault = "none"

\* K_p
TogglePause ==
    /\ Running
    /\ paused' = ~paused
    /\ log' = EmptyLog
    /\ UNCHANGED <<obj, bodies, fault, ticks, hist>>

\* K_a
KeyAddPlanet ==
    /\ Running
    /\ Len(obj) < MaxBodies
    /\ \E angle \in Angles, dist \in Dists : add_planet(NoPos, angle, dist)

\* left mouse button
ClickAddPlanet ==
    /\ Running
    /\ Len(obj) < MaxBodies
    /\ \E pos \in Clicks, angle \in Angles, dist \in Dists : add_planet(pos, angle, dist)

\* K_s
KeyAddAsteroid ==
    /\ Running
    /\ Len(obj) < MaxBodies
    /\ \E at \in AsteroidSpots, vel \in AsteroidVels : add_asteroid(at, vel)

\* K_d popping the front of the list (pop(0) for pop())
RemoveFirst ==
    /\ Running
    /\ bodies' = IF Len(bodies) > 1 THEN Tail(bodies) ELSE bodies
    /\ log' = EmptyLog
    /\ UNCHANGED <<obj, paused, fault, ticks, hist>>

\* K_d without the test of len(bodies) > 1
RemoveLastUnguarded ==
    /\ Running
    /\ Len(bodies) > 0
    /\ bodies' = SubSeq(bodies, 1, Len(bodies) - 1)
    /\ log' = EmptyLog
    /\ UNCHANGED <<obj, paused, fault, ticks, hist>>

\* K_d: bodies.pop() when more than one body is live, otherwise nothing
RemoveLast ==
    /\ Running
    /\ bodies' = IF Len(bodies) > 1 THEN SubSeq(bodies, 1, Len(bodies) - 1) ELSE bodies
    /\ log' = EmptyLog
    /\ UNCHANGED <<obj, paused, fault, ticks, hist>>

\* body.draw(): reads the body, changes nothing of the simulation
Draw(self, st) == [st EXCEPT !.drawn = Append(@, self)]

\* the update pass over the live list itself (`for body in bodies:`)
RECURSIVE FrameLive(_, _, _)
FrameLive(snap, k, st) ==
    IF k > Len(st.bodies) \/ st.fault # "none" THEN st
    ELSE FrameLive(snap, k + 1, Draw(st.bodies[k], Update(st.bodies[k], st)))

\* `for body in bodies[:]: body.update(); body.draw()` from position k of the copy
RECURSIVE Frame(_, _, _)
Frame(snap, k, st) ==
    IF k > Len(snap) \/ st.fault # "none" THEN st
    ELSE Frame(snap, k + 1, Draw(snap[k], Update(snap[k], st)))

\* one iteration of the main loop after its events: lines 192-195
Tick(limit) ==
    /\ Running
    /\ ticks < limit
    /\ LET st == Frame(bodies, 1,
                       [obj |-> obj, bodies |-> bodies, hist |-> hist,
                        fx |-> 0, fy |-> 0, fault |-> "none",
                        calls |-> <<>>, drawn |-> <<>>, seen |-> <<>>,
                        merges |-> <<>>, integ |-> <<>>, integLive |-> <<>>])
       IN  /\ obj' = st.obj
           /\ bodies' = st.bodies
           /\ hist' = st.hist
           /\ log' = [ticked |-> TRUE, snap |-> bodies, pre_obj |-> obj,
                      pre_bodies |-> bodies, pre_paused |-> paused,
                      calls |-> st.calls, drawn |-> st.drawn, seen |-> st.seen,
                      merges |-> st.merges, integ |-> st.integ,
                      integLive |-> st.integLive]
           /\ fault' = st.fault
    /\ ticks' = ticks + 1
    /\ UNCHANGED paused

\* lines 114-115 and the globals of lines 18-27
Init ==
    /\ obj = <<Sun>>
    /\ bodies = <<1>>
    /\ paused = FALSE
    /\ fault = "none"
    /\ ticks = 0
    /\ hist = <<<<>>>>
    /\ log = EmptyLog

Next ==
    \/ TogglePause
    \/ KeyAddPlanet
    \/ ClickAddPlanet
    \/ KeyAddAsteroid
    \/ RemoveLast
    \/ Tick(MaxTicks)

Spec == Init /\ [][Next]_vars

---------------------------------------------------------------------------
(* Worlds the spawners can build, as starting points of longer runs *)

\* random.uniform(0, 2*pi) for these worlds: 0, pi/2, pi and 3*pi/2
WorldAngles == Angles \cup {<<-1, 0>>, <<0, -1>>}

\* every Body a spawn command of these inputs appends
SpawnTypes ==
    {PlanetBody(Sun, NoPos, angle, dist) : angle \in WorldAngles, dist \in Dists}
    \cup {PlanetBody(Sun, pos, angle, 100) :
              pos \in {c \in Clicks : PlanetPos(c, <<1, 0>>, 100) # <<0, 0>>},
              angle \in Angles}
    \cup {AsteroidBody(at, vel) : at \in AsteroidSpots, vel \in AsteroidVels}

World(spawned) ==
    /\ obj = <<Sun>> \o spawned
    /\ bodies = [i \in 1..(Len(spawned) + 1) |-> i]
    /\ paused = FALSE
    /\ fault = "none"
    /\ ticks = 0
    /\ hist = [i \in 1..(Len(spawned) + 1) |-> <<>>]
    /\ log = EmptyLog

\* the sun and four spawned bodies
InitFive ==
    \E b2 \in SpawnTypes, b3 \in SpawnTypes, b4 \in SpawnTypes, b5 \in SpawnTypes :
        World(<<b2, b3, b4, b5>>)

NextFive == Tick(MaxTicks)

SpecFive == InitFive /\ [][NextFive]_vars

\* the sun and one or two spawned bodies, run until the trails are full
InitTrail ==
    \/ \E b2 \in SpawnTypes : World(<<b2>>)
    \/ \E b2 \in SpawnTypes, b3 \in SpawnTypes : World(<<b2, b3>>)

NextTrail == Tick(TrailTicks)

SpecTrail == InitTrail /\ [][NextTrail]_vars

\* arguments a caller can hand to Body(...): mass, and radius in world units
CtorMasses == {-1, 0, 1, 5}
CtorRadii == {-1, 0, 3}

\* bodies.append(Body(x, y, radius, color, mass)) with arguments of the caller's
\* choosing, at world position (200, 0)
Construct ==
    /\ Running
    /\ Len(obj) < MaxBodies
    /\ \E mass \in CtorMasses, radius \in CtorRadii :
          Spawn(NewBody(200 * FP, 0, radius * FP, mass, 0, 0, FALSE))

NextCtor == Construct

SpecCtor == Init /\ [][NextCtor]_vars

---------------------------------------------------------------------------
(* Properties *)

RECURSIVE TotalMass(_, _)
TotalMass(list, o) ==
    IF list = <<>> THEN 0 ELSE o[Head(list)].mass + TotalMass(Tail(list), o)

Abs(n) == IF n >= 0 THEN n ELSE -n

Merged == {k \in 1..Len(log.merges) : log.merges[k].kind = "merged"}

\* C1: Mass conservation: the masses of the live bodies sum to the same total
\* after a frame's update pass as before it, whatever merges it performed.
MassConservation ==
    log.ticked => TotalMass(bodies, obj) = TotalMass(log.pre_bodies, log.pre_obj)

\* v is the average of v_w and v_l weighted by m_w and m_l, to the rounding of
\* one fixed-point division
IsWeightedMean(v, v_w, m_w, v_l, m_l) ==
    Abs(v * (m_w + m_l) - (v_w * m_w + v_l * m_l)) < m_w + m_l

\* C2: Each component of the winner's velocity after a merge is
\* (v_w*m_w + v_l*m_l) / (m_w + m_l), with the masses the two bodies had
\* before the merge.
MergeVelocityPreMass ==
    \A k \in Merged :
        LET e == log.merges[k]
        IN  /\ IsWeightedMean(e.after.vx, e.w.vx, e.w.mass, e.l.vx, e.l.mass)
            /\ IsWeightedMean(e.after.vy, e.w.vy, e.w.mass, e.l.vy, e.l.mass)

\* C3: Static immunity: in every step (event or frame) a static body stays
\* static, keeps at least the mass it had, and stays in the live collection.
StaticImmunity ==
    [][\A id \in 1..Len(obj) :
          obj[id].is_static =>
              /\ obj'[id].is_static
              /\ obj'[id].mass >= obj[id].mass
              /\ InList(id, bodies')]_vars

\* C3 witness: the last frame called merge on the sun (a planet or asteroid
\* overlapped it), a body has since or before been taken off the list, and
\* the sun is live with its mass.
StaticImmunityWitness ==
    /\ log.ticked
    /\ \E k \in 1..Len(log.merges) :
          /\ log.merges[k].other = 1
          /\ log.merges[k].kind = "static"
    /\ Len(obj) > Len(bodies)
    /\ InList(1, bodies)
    /\ obj[1].mass = SunMass

\* C4: A static body absorbs: whenever merge is called for a non-static body
\* of lower mass overlapping a static body of higher mass, the static body
\* wins, i.e. the other body leaves the live collection and the static
\* body's mass becomes the sum of the two.
StaticAbsorbs ==
    \A k \in 1..Len(log.merges) :
        LET e == log.merges[k]
        IN  (/\ log.pre_obj[e.other].is_static
             /\ ~log.pre_obj[e.self].is_static
             /\ e.l.mass < e.w.mass)
            => /\ e.kind = "merged"
               /\ e.winner = e.other
               /\ e.after.mass = e.w.mass + e.l.mass
               /\ ~InList(e.self, bodies)


Count(id, list) == Cardinality({k \in 1..Len(list) : list[k] = id})

\* the pairs of bodies the last frame found overlapping
CollidingPairs ==
    {{log.seen[k].self, log.seen[k].other} :
        k \in {j \in 1..Len(log.seen) : log.seen[j].kind = "collide"}}

OnePairCollided ==
    /\ Cardinality(CollidingPairs) = 1
    /\ \A pair \in CollidingPairs : \A id \in pair : ~obj[id].is_static

RemovedByMerge == \E k \in Merged : log.merges[k].loseLive

\* C5: Safe removal under iteration: after a frame in which a merge removed a
\* body, every body live both before and after the frame had update called
\* exactly once, no fault occurred, and if the frame began with five live
\* bodies and exactly one pair of bodies, both non-static, was found
\* overlapping in it, four bodies are live.
SafeRemoval ==
    (log.ticked /\ RemovedByMerge) =>
        /\ fault = "none"
        /\ \A id \in 1..Len(obj) :
              (InList(id, log.pre_bodies) /\ InList(id, bodies))
                  => Count(id, log.calls) = 1
        /\ (Len(log.pre_bodies) = 5 /\ OnePairCollided) => Len(bodies) = 4

\* C5 witness: a frame over five bodies with one colliding non-static pair;
\* the merge removed a body that was not last in the list, and four are live.
SafeRemovalWitness ==
    /\ log.ticked
    /\ Len(log.pre_bodies) = 5
    /\ OnePairCollided
    /\ \E k \in Merged :
          /\ log.merges[k].loseLive
          /\ log.merges[k].loser # log.pre_bodies[5]
          /\ log.merges[k].winner # log.pre_bodies[5]
    /\ Len(bodies) = 4
    /\ log.calls = log.pre_bodies

\* two live non-static bodies overlap without coinciding: update would merge them
OverlapLive ==
    \E i \in 1..Len(bodies), j \in 1..Len(bodies) :
        LET a == obj[bodies[i]]
            b == obj[bodies[j]]
            d == Hypot(b.x - a.x, b.y - a.y)
        IN  i # j /\ ~a.is_static /\ ~b.is_static /\ d # 0 /\ d < a.radius + b.radius

\* C6: Pause freezes kinematics: a frame that runs while paused leaves every
\* body (position, velocity, mass, radius, trail) and the live collection as
\* they were, and still draws every live body.
PauseFreezes ==
    (log.ticked /\ log.pre_paused) =>
        /\ obj = log.pre_obj
        /\ bodies = log.pre_bodies
        /\ log.integ = <<>>
        /\ log.drawn = bodies

\* C6 witness: a paused frame ran, after an earlier frame moved a body, over
\* bodies that overlap (unpaused, it would have merged them).
PauseFreezesWitness ==
    /\ log.ticked
    /\ log.pre_paused
    /\ ticks >= 2
    /\ \E id \in 1..Len(obj) : Len(hist[id]) > 0
    /\ OverlapLive

LastOf(seq, n) == SubSeq(seq, Len(seq) - n + 1, Len(seq))

\* C7: Trail capacity: a trail never holds more than 150 entries, and the
\* trail of a body integrated more than 150 times is exactly its 150 most
\* recent positions, oldest first.
TrailCapacity ==
    \A id \in 1..Len(obj) :
        /\ Len(obj[id].trail) <= TrailCap
        /\ Len(hist[id]) > TrailCap => obj[id].trail = LastOf(hist[id], TrailCap)

\* C7 witness: a body has been integrated more than 150 times and has moved.
TrailCapacityWitness ==
    \E id \in 1..Len(obj) :
        /\ Len(hist[id]) > TrailCap
        /\ hist[id][1] # hist[id][Len(hist[id])]
        /\ obj[id].trail[1] # hist[id][1]

\* C8: remove_last: the live collection is never empty, and a step that
\* shortens it outside a frame happens only with more than one body live and
\* takes off exactly the last element, the most recently appended live body.
RemoveLastKeepsOne ==
    [][/\ Len(bodies') >= 1
       /\ (ticks' = ticks /\ Len(bodies') < Len(bodies)) =>
             /\ Len(bodies) > 1
             /\ bodies' = SubSeq(bodies, 1, Len(bodies) - 1)
             /\ \A i \in 1..Len(bodies) : bodies[i] <= bodies[Len(bodies)]]_vars

\* C8 witness: before any frame, two bodies were spawned and only the sun is
\* live: remove_last took both off and then had one body left to refuse.
RemoveLastWitness ==
    /\ ticks = 0
    /\ Len(obj) = 3
    /\ bodies = <<1>>

\* C9: No exceptional condition propagates: no sequence of spawns, commands
\* and frames ends the program with an exception.
NoFault == fault = "none"

\* a planet as add_planet constructed it: not yet integrated, not yet merged
FreshPlanets ==
    {id \in 1..Len(obj) :
        /\ obj[id].mass = PlanetMass
        /\ obj[id].radius = PlanetRadius * FP
        /\ hist[id] = <<>>}

\* C10: Orbit seeding: a planet add_planet creates at distance d from the sun
\* has speed sqrt(G*M/d), directed perpendicular to its position vector.
OrbitSeeding ==
    \A id \in FreshPlanets :
        LET p == obj[id]
            speed == OrbitSpeed(obj[1].mass, Hypot(p.x, p.y))
        IN  /\ p.vx * p.vx + p.vy * p.vy = speed * speed
            /\ p.x * p.vx + p.y * p.vy = 0


\* n is the square root of sq, to the rounding of the fixed-point square root
IsRoot(n, sq) == n * n <= sq /\ sq < (n + 1) * (n + 1)

\* C11: Radius growth law: the winner's radius r after a merge satisfies
\* r^2 = r_w^2 + r_l^2 for the radii the two bodies had before it, is at least
\* either of them, and every body's radius is positive.
RadiusGrowthLaw ==
    /\ \A id \in 1..Len(obj) : obj[id].radius > 0
    /\ \A k \in Merged :
          LET e == log.merges[k]
          IN  /\ IsRoot(e.after.radius, e.w.radius * e.w.radius + e.l.radius * e.l.radius)
              /\ e.after.radius >= e.w.radius
              /\ e.after.radius >= e.l.radius

\* C11 witness: the last frame merged a planet (radius 6) and an asteroid
\* (radius 3), and the winner is live with the grown radius.
RadiusGrowthWitness ==
    \E k \in Merged :
        LET e == log.merges[k]
        IN  /\ e.w.radius = PlanetRadius * FP
            /\ e.l.radius = AsteroidRadius * FP
            /\ e.after.radius > e.w.radius
            /\ InList(e.winner, bodies)
            /\ obj[e.winner].radius >= e.after.radius


\* C12: Construction rejects a non-positive mass or radius: no Body with
\* mass <= 0 or radius <= 0 is ever constructed and appended; the attempt
\* ends in a construction-time error instead.
ConstructionRejects ==
    \A id \in 1..Len(obj) : obj[id].mass > 0 /\ obj[id].radius > 0


\* C13: A body a merge removed is not processed again in the same frame: no
\* iteration of a scan, no call of merge and no integration has a subject
\* that is off the live list, and merge is only called on two live bodies.
NoProcessingAfterRemoval ==
    /\ \A k \in 1..Len(log.seen) : log.seen[k].selfLive
    /\ \A k \in 1..Len(log.merges) : log.merges[k].winLive /\ log.merges[k].loseLive
    /\ \A k \in 1..Len(log.integLive) : log.integLive[k]

\* the merges of the last frame that removed their own subject from the list
SelfRemoved == {k \in Merged : log.merges[k].loser = log.merges[k].self
                               /\ log.merges[k].loseLive}

\* C14: When a merge removes the subject S during S's own update, the update
\* stops: S scans no further body, calls no further merge, is not integrated
\* and gets no trail entry.
StopsWhenSelfRemoved ==
    \A k \in SelfRemoved :
        LET S == log.merges[k].self
        IN  /\ \A j \in 1..Len(log.seen) :
                  log.seen[j].self = S => log.seen[j].selfLive
            /\ \A j \in 1..Len(log.merges) :
                  (j > k /\ log.merges[j].self = S) => FALSE
            /\ \A j \in 1..Len(log.integ) : log.integ[j] # S
            /\ obj[S].trail = log.pre_obj[S].trail


\* how often the last frame's scan of subject S examined the body X
Examined(S, X) ==
    Cardinality({k \in 1..Len(log.seen) :
                    log.seen[k].self = S /\ log.seen[k].other = X})

\* the bodies live from the start of the last frame to its end
LiveThroughout == {id \in 1..Len(obj) : InList(id, log.pre_bodies) /\ InList(id, bodies)}

\* C15: The scan of a subject S examines every other live body exactly once,
\* also after a merge earlier in the scan took a body off the list: in an
\* unpaused frame, for a non-static S and another body X that are both live
\* from the start of the frame to its end, S's scan examines X once.
ScanExaminesAll ==
    (log.ticked /\ ~log.pre_paused) =>
        \A S \in LiveThroughout, X \in LiveThroughout :
            (S # X /\ ~obj[S].is_static) => Examined(S, X) = 1

\* C16: When merge is called on two live non-static bodies of different
\* mass, the lighter one is absorbed and leaves the live collection and the
\* heavier one stays live with the sum of the masses, whichever was self.
LighterIsAbsorbed ==
    \A k \in Merged :
        LET e == log.merges[k]
        IN  (e.winLive /\ e.loseLive /\ e.w.mass # e.l.mass) =>
                /\ e.l.mass < e.w.mass
                /\ ~e.loseLiveAfter
                /\ e.winLiveAfter
                /\ e.after.mass = e.w.mass + e.l.mass

\* C16 witness: in the last frame a live subject met a heavier live body and
\* was absorbed by it, and the heavier body is live with the summed mass.
LighterIsAbsorbedWitness ==
    \E k \in Merged :
        LET e == log.merges[k]
        IN  /\ e.winLive /\ e.loseLive
            /\ e.self = e.loser
            /\ e.l.mass < e.w.mass
            /\ InList(e.winner, bodies)
            /\ ~InList(e.loser, bodies)
            /\ obj[e.winner].mass >= e.w.mass + e.l.mass

\* the merges of the last frame between two bodies of equal mass
Ties == {k \in Merged : log.merges[k].w.mass = log.merges[k].l.mass}

\* C17 as stated: on equal masses the second operand (other) wins: other
\* stays live with the summed mass and self is removed.
TieOtherWins ==
    \A k \in Ties :
        LET e == log.merges[k]
        IN  /\ e.winner = e.other
            /\ e.loser = e.self
            /\ e.after.mass = e.w.mass + e.l.mass
            /\ ~e.loseLiveAfter

\* C17 as amended: on equal masses the first operand (self) wins: self gets
\* the summed mass and keeps its membership, and other is off the live list.
TieSelfWins ==
    \A k \in Ties :
        LET e == log.merges[k]
        IN  /\ e.winner = e.self
            /\ e.loser = e.other
            /\ e.after.mass = e.w.mass + e.l.mass
            /\ e.winLiveAfter = e.winLive
            /\ ~e.loseLiveAfter

\* C17 witness: the last frame merged two live bodies of equal mass; self
\* won and is live with twice the mass, other is gone.
TieSelfWinsWitness ==
    \E k \in Ties :
        LET e == log.merges[k]
        IN  /\ e.winLive /\ e.loseLive
            /\ e.winner = e.self
            /\ InList(e.self, bodies)
            /\ ~InList(e.other, bodies)
            /\ obj[e.self].mass >= 2 * e.l.mass

\* C20: Whenever a merge removes a body from the live collection, the body
\* that received its mass is in the live collection right after the merge.
AbsorberIsLive ==
    \A k \in Merged : log.merges[k].loseLive => log.merges[k].winLiveAfter

\* the scan iterations of the last frame whose two centres coincide
Coincident == {k \in 1..Len(log.seen) : log.seen[k].dx = 0 /\ log.seen[k].dy = 0}

\* merge call j of the last frame was made by a scan iteration that found
\* the pair overlapping at a distance other than zero
CalledOnOverlap(j) ==
    \E k \in 1..Len(log.seen) :
        /\ log.seen[k].kind = "collide"
        /\ log.seen[k].mergesBefore = j - 1
        /\ log.seen[k].self = log.merges[j].self
        /\ log.seen[k].other = log.merges[j].other
        /\ k \notin Coincident

\* C18: A pair of coincident centres is skipped: the iteration adds no force
\* and calls no merge (every merge call of the frame, the only place where a
\* mass or the membership changes, comes from an iteration at a distance
\* other than zero), and the frame ends without a fault.
ZeroDistanceSkipped ==
    log.ticked =>
        /\ fault = "none"
        /\ \A k \in Coincident :
              log.seen[k].kind = "zero" /\ log.seen[k].push = <<0, 0>>
        /\ \A j \in 1..Len(log.merges) : CalledOnOverlap(j)

\* C18 witness: the last frame updated a body whose centre coincides with
\* another non-static body's; both are still live with the mass they had.
ZeroDistanceWitness ==
    \E k \in Coincident :
        LET S == log.seen[k].self
            O == log.seen[k].other
        IN  /\ S # O
            /\ ~obj[S].is_static /\ ~obj[O].is_static
            /\ InList(S, bodies) /\ InList(O, bodies)
            /\ obj[S].mass = log.pre_obj[S].mass
            /\ obj[O].mass = log.pre_obj[O].mass
            /\ S \in {log.integ[n] : n \in 1..Len(log.integ)}

\* the merge calls of the last frame that took a body off the live list
Removals == {j \in Merged : log.merges[j].loseLive /\ ~log.merges[j].loseLiveAfter}

\* C19: The frame calls update on the bodies in the order of the collection
\* at its start, and no scan iteration has as its other body one that an
\* earlier merge call of the frame removed.
RemovedNeverSeen ==
    log.ticked =>
        /\ log.calls = log.pre_bodies
        /\ \A k \in 1..Len(log.seen) : \A j \in Removals :
              j <= log.seen[k].mergesBefore => log.seen[k].other # log.merges[j].loser

\* C19 witness: a merge call during one body's update removed a body, and a
\* body updated later, itself live, scanned the collection after that.
RemovedNeverSeenWitness ==
    \E j \in Removals : \E k \in 1..Len(log.seen) :
        /\ j <= log.seen[k].mergesBefore
        /\ log.seen[k].self # log.merges[j].self
        /\ log.seen[k].selfLive
        /\ InList(log.seen[k].self, bodies)
        /\ ~InList(log.merges[j].loser, bodies)

=============================================================================
